---- MODULE Spec2Model ----
(***************************************************************************)
(* The embedded SSH server of rospo (package sshd): the accept loop, the   *)
(* public key callback, the global request router handleRequests with its  *)
(* tcpip-forward / cancel-tcpip-forward handling, and the per-forward      *)
(* checkAliveFun goroutine.                                                *)
(*                                                                         *)
(* One sshServer object is shared by every accepted connection: the        *)
(* fields client, forwards, forwadsMu and checkAliveStop are the server's, *)
(* not the connection's.                                                   *)
(***************************************************************************)
EXTENDS Naturals, FiniteSets, Sequences, TLC

\* ------------------------------------------------------------------ bounds
MaxConns == 2
MaxAddrs == 2
MaxListeners == 3
MaxFileLen == 2
MaxChans == 1
MaxBusy == 1
MaxOpens == 2

Conns == 1..MaxConns
Addrs == 1..MaxAddrs
Listeners == 1..MaxListeners

None == 0

\* ------------------------------------------------------------ public keys
\* A public key is its algorithm and its key material.
PubKeys ==
    { [type |-> "ssh-ed25519", blob |-> 1],
      [type |-> "ssh-ed25519", blob |-> 2],
      [type |-> "ssh-rsa", blob |-> 1] }

NoKey == [type |-> "none", blob |-> None]

\* A line of the authorized_keys file that ssh.ParseAuthorizedKey rejects.
Garbage == [type |-> "garbage", blob |-> None]

FileLines == PubKeys \cup {Garbage}

RECURSIVE SeqsUpTo(_, _)
SeqsUpTo(S, n) ==
    IF n = 0 THEN {<<>>}
    ELSE LET shorter == SeqsUpTo(S, n - 1)
         IN  shorter \cup {Append(s, x) : s \in shorter, x \in S}

\* The authorized_keys file: whether ioutil.ReadFile can read it, and its
\* lines.
Files ==
    [readable : {TRUE}, lines : SeqsUpTo(FileLines, MaxFileLen)]
    \cup {[readable |-> FALSE, lines |-> <<>>]}

\* pubKey.Marshal(): the wire form, the algorithm name followed by the blob.
Marshal(pk) == <<pk.type, pk.blob>>

\* ssh.FingerprintSHA256(pubKey): a digest of the wire form.
FingerprintSHA256(pk) == <<"SHA256", Marshal(pk)>>

\* log.Fatal inside loadAuthorizedKeys: no map is returned.
Fatal == [fatal |-> TRUE, keys |-> {}]

\* The loop of loadAuthorizedKeys over the remaining bytes of the file.
RECURSIVE loadLoop(_, _)
loadLoop(rest, authorizedKeysMap) ==
    IF rest = <<>> THEN [fatal |-> FALSE, keys |-> authorizedKeysMap]
    ELSE IF Head(rest) = Garbage THEN Fatal
    ELSE loadLoop(Tail(rest), authorizedKeysMap \cup {Marshal(Head(rest))})

\* A loader that stops after the first entry of the file.
loadAuthorizedKeysFirstOnly(file) ==
    IF ~file.readable THEN Fatal
    ELSE IF file.lines = <<>> THEN loadLoop(<<>>, {})
    ELSE loadLoop(<<Head(file.lines)>>, {})

\* loadAuthorizedKeys: the set of marshaled keys of the file, or a fatal
\* exit of the process (log.Fatal) when it cannot be read or parsed.
loadAuthorizedKeys(file) ==
    IF ~file.readable THEN Fatal ELSE loadLoop(file.lines, {})

NoPermissions == [ok |-> FALSE, extensions |-> {}]

\* keyAuth: the permissions and whether the attempt succeeded.
keyAuth(authorizedKeysMap, pubKey) ==
    IF Marshal(pubKey) \in authorizedKeysMap
    THEN [ok |-> TRUE,
          extensions |-> {<<"pubkey-fp", FingerprintSHA256(pubKey)>>}]
    ELSE NoPermissions

\* ------------------------------------------------------------------ state
VARIABLES
    process,        \* "running", or what ended the server process
    authFile,       \* contents of the authorized_keys file
    cstate,         \* per connection: "none", "established", "rejected", "closed"
    ckey,           \* per connection: the public key it presented
    perms,          \* per connection: sshConn.Permissions
    client,         \* s.client
    forwards,       \* s.forwards: address -> listener
    forwadsMu,      \* s.forwadsMu: Free or its holder across steps
    rpc,            \* per connection: where its handleRequests goroutine is
    req,            \* per connection: the request being handled
    reply,          \* per connection: the reply given to req
    ln,             \* per connection: handleRequests' local ln
    listener,       \* per listener: "unbound", "open" or "closed"
    laddr,          \* per listener: the address it was bound on
    owner,          \* per listener: the connection whose request created it
    lclient,        \* per listener: the connection handed to its accept loop
    sup,            \* per listener: its checkAliveFun: "none", "select", "lock", "returned"
    chans,          \* forwarded-tcpip channels opened: <<listener, connection>>
    payload,        \* per connection: the payload of the reply given to req
    cpc,            \* per connection: where its handleChannels goroutine is
    newChannel,     \* per connection: the type of the channel-open being dispatched
    chanOut,        \* per connection: what handleChannels did with each channel-open
    npc,            \* where NewSshServer is
    keyPath,        \* conf.Key, the path of the host key file
    fs,             \* per path: the file there
    hostPrivateKey, \* the host key bytes read, then s.hostPrivateKey, the parsed signer
    genCalls        \* the paths utils.GeneratePrivateKey was called with

vars == <<process, authFile, cstate, ckey, perms, client, forwards, forwadsMu,
          rpc, req, reply, ln, listener, laddr, owner, lclient, sup, chans,
          payload, cpc, newChannel, chanOut, npc, keyPath, fs, hostPrivateKey,
          genCalls>>

connVars == <<cstate, ckey, perms, client>>
routerVars == <<rpc, req, reply, ln>>
listenerVars == <<listener, laddr, owner, lclient>>
chanVars == <<cpc, newChannel, chanOut>>
keyVars == <<npc, keyPath, fs, hostPrivateKey, genCalls>>

Free == <<"free", 0>>
Router(c) == <<"router", c>>

NoReq == [type |-> "none", ok |-> TRUE, addr |-> None]

TcpipForward == "tcpip-forward"
CancelTcpipForward == "cancel-tcpip-forward"
Keepalive == "keepalive@openssh.com"
KeepaliveInfix == "x-keepalive@rospo"
OutOfBand == "no-more-sessions@openssh.com"

\* The requests a peer sends: ok says whether ssh.Unmarshal accepts the
\* payload, addr is the "[addr]:port" it names.
Requests ==
    [type : {TcpipForward, CancelTcpipForward}, ok : {TRUE}, addr : Addrs]
    \cup [type : {TcpipForward, CancelTcpipForward}, ok : {FALSE}, addr : {None}]
    \cup [type : {Keepalive, KeepaliveInfix, OutOfBand}, ok : {TRUE}, addr : {None}]

\* A request type cut at the occurrences of "keepalive" in it.
TypeParts(t) ==
    CASE t = Keepalive -> <<"keepalive", "@openssh.com">>
      [] t = KeepaliveInfix -> <<"x-", "keepalive", "@rospo">>
      [] OTHER -> <<t>>

\* A test for the type starting with "keepalive".
HasPrefixKeepalive(t) == TypeParts(t)[1] = "keepalive"

\* strings.Contains(req.Type, "keepalive")
ContainsKeepalive(t) ==
    \E i \in DOMAIN TypeParts(t) : TypeParts(t)[i] = "keepalive"

Running == process = "running"

\* What ends the process: the panic of Start on an accept error, log.Fatal
\* of loadAuthorizedKeys, and the runtime's fatal error on a map access that
\* races with a write.
AcceptPanic == "panic: accept"
AuthorizedKeysFatal == "fatal: authorized_keys"
ConcurrentMapFatal == "fatal error: concurrent map read and map write"

\* The handleRequests goroutines that are handling a request.
Busy == {c \in Conns : rpc[c] \notin {"none", "idle", "done", "killed"}}

Alive(c) == c # None /\ cstate[c] = "established"

SupLive(l) == sup[l] \in {"select", "lock"}

\* ln.Close(): closing a closed listener changes nothing.
Close(l) ==
    [listener EXCEPT ![l] = IF @ = "open" THEN "closed" ELSE @]

\* Another goroutine can be inside its write of the map right now: it is at
\* its locked delete(s.forwards, addr) or s.forwards[addr] = ln, and the lock
\* is there for it to take.
MapWriteInProgress ==
    /\ forwadsMu = Free
    /\ \/ \E l \in Listeners : sup[l] = "lock"
       \/ \E c \in Conns : rpc[c] = "fwd_install"

\* The payload of a reply: nothing, as in req.Reply(false, []byte{}) and
\* req.Reply(true, nil), or the marshaled struct{ Port uint32 }.
EmptyPayload == <<>>

\* No reply has been sent for the request.
NoPayload == <<>>

\* ssh.Marshal(replyPayload) of line 197-199: the port the request named.
ReplyPayload(c) == <<req[c].addr>>

\* ----------------------------------------------------------- channel opens
NoChannel == "none"

\* The channel types a peer asks for.
ChannelTypes == {"session", "direct-tcpip", "x11", "forwarded-tcpip"}

\* ssh.UnknownChannelType
UnknownChannelType == "UnknownChannelType"

\* fmt.Sprintf("unknown channel type: %s", t)
RejectMessage(t) == <<"unknown channel type: ", t>>

\* What handleChannels does with a channel-open: the handler it starts on
\* it, or the reason and the message of its rejection.
Handled(t, h) == [type |-> t, handler |-> h, reason |-> "none", message |-> <<>>]
Rejected(t, why, msg) == [type |-> t, handler |-> "none", reason |-> why, message |-> msg]

\* A switch that knows the session type only.
dispatchSessionOnly(t) ==
    CASE t = "session" -> Handled(t, "handleChannelSession")
      [] OTHER -> Rejected(t, UnknownChannelType, RejectMessage(t))

\* switch t of handleChannels.
dispatch(t) ==
    CASE t = "session" -> Handled(t, "handleChannelSession")
      [] t = "direct-tcpip" -> Handled(t, "handleChannelDirect")
      [] OTHER -> Rejected(t, UnknownChannelType, RejectMessage(t))

\* ---------------------------------------------------------------- host key
\* The paths of the file system: the one conf.Key names and another one.
Paths == {"key", "elsewhere"}

\* A file of a path: absent, or there with a content that
\* ssh.ParsePrivateKey accepts ("pem") or rejects ("garbage").
NoFile == [exists |-> FALSE, pem |-> "none"]
KeyFiles == {NoFile} \cup [exists : {TRUE}, pem : {"pem", "garbage"}]

\* ioutil.ReadFile(path): the bytes, or an error.
ReadFile(files, path) ==
    IF files[path].exists
    THEN [err |-> FALSE, bytes |-> files[path].pem]
    ELSE [err |-> TRUE, bytes |-> "none"]

\* ssh.ParsePrivateKey(bytes): a signer, or an error.
NoSigner == "none"
ParsePrivateKey(bytes) ==
    IF bytes = "pem"
    THEN [err |-> FALSE, signer |-> "signer"]
    ELSE [err |-> TRUE, signer |-> NoSigner]

InitialKeyPath == "key"
InitialFs == [p \in Paths |-> IF p = InitialKeyPath
                                THEN [exists |-> TRUE, pem |-> "pem"]
                                ELSE NoFile]

\* ------------------------------------------------------------------- init
\* The state after NewSshServer: an empty forwards map, no client, and an
\* authorized_keys file that loadAuthorizedKeys could read.
InitialFile ==
    [readable |-> TRUE, lines |-> << [type |-> "ssh-ed25519", blob |-> 1] >>]

\* The server object of lines 51-58, nothing accepted yet.
Fresh ==
    /\ process = "running"
    /\ cstate = [c \in Conns |-> "none"]
    /\ ckey = [c \in Conns |-> NoKey]
    /\ perms = [c \in Conns |-> NoPermissions]
    /\ client = None
    /\ forwards = [a \in Addrs |-> None]
    /\ forwadsMu = Free
    /\ rpc = [c \in Conns |-> "none"]
    /\ req = [c \in Conns |-> NoReq]
    /\ reply = [c \in Conns |-> "none"]
    /\ ln = [c \in Conns |-> None]
    /\ listener = [l \in Listeners |-> "unbound"]
    /\ laddr = [l \in Listeners |-> None]
    /\ owner = [l \in Listeners |-> None]
    /\ lclient = [l \in Listeners |-> None]
    /\ sup = [l \in Listeners |-> "none"]
    /\ chans = {}
    /\ payload = [c \in Conns |-> NoPayload]
    /\ cpc = [c \in Conns |-> "none"]
    /\ newChannel = [c \in Conns |-> NoChannel]
    /\ chanOut = [c \in Conns |-> <<>>]

Init ==
    /\ Fresh
    /\ authFile = InitialFile
    /\ npc = "returned"
    /\ keyPath = InitialKeyPath
    /\ fs = InitialFs
    /\ hostPrivateKey = ParsePrivateKey(InitialFs[InitialKeyPath].pem).signer
    /\ genCalls = <<>>

\* ------------------------------------------------------------ process exit
\* panic, log.Fatal or a fatal error of the runtime: the process is gone,
\* with its goroutines, its listeners and its connections.
Exit(why) ==
    /\ process' = why
    /\ cstate' = [c \in Conns |-> IF cstate[c] = "established" THEN "closed" ELSE cstate[c]]
    /\ client' = None
    /\ forwards' = [a \in Addrs |-> None]
    /\ forwadsMu' = Free
    /\ rpc' = [c \in Conns |-> IF rpc[c] = "none" THEN "none" ELSE "killed"]
    /\ ln' = [c \in Conns |-> None]
    /\ listener' = [l \in Listeners |-> IF listener[l] = "open" THEN "closed" ELSE listener[l]]
    /\ sup' = [l \in Listeners |-> IF SupLive(l) THEN "killed" ELSE sup[l]]
    /\ chans' = {}
    /\ req' = [c \in Conns |-> NoReq]
    /\ reply' = [c \in Conns |-> "none"]
    /\ lclient' = [l \in Listeners |-> None]
    /\ payload' = [c \in Conns |-> NoPayload]
    /\ cpc' = [c \in Conns |-> IF cpc[c] = "none" THEN "none" ELSE "killed"]
    /\ newChannel' = [c \in Conns |-> NoChannel]
    /\ UNCHANGED <<keyVars, chanOut, authFile, ckey, perms, laddr, owner>>

\* ------------------------------------------------------------ NewSshServer
\* NewSshServer is called: any file or none at either path, any
\* authorized_keys file.
KeyInit ==
    /\ Fresh
    /\ authFile \in Files
    /\ npc = "read"
    /\ keyPath \in Paths
    /\ fs \in [Paths -> KeyFiles]
    /\ hostPrivateKey = "none"
    /\ genCalls = <<>>

\* Line 36: the first read of the key file; an error sends to the generator.
ReadKey ==
    /\ Running
    /\ npc = "read"
    /\ LET r == ReadFile(fs, keyPath)
       IN  IF r.err
           THEN npc' = "generate" /\ UNCHANGED hostPrivateKey
           ELSE npc' = "parse" /\ hostPrivateKey' = r.bytes
    /\ UNCHANGED <<keyPath, fs, genCalls, chanVars, payload, process, authFile,
                   connVars, forwards, forwadsMu, routerVars, listenerVars,
                   sup, chans>>

\* A generator called with another path than the key's.
GeneratorPathOther == CHOOSE p \in Paths : p # keyPath

\* The path line 39 passes to the generator: &keyPath.
GeneratorPath == keyPath

\* utils.GeneratePrivateKey(&keyPath): the generator leaves a key file at
\* the path it is given, or fails to.
GenerateKey(out) ==
    /\ Running
    /\ npc = "generate"
    /\ genCalls' = Append(genCalls, GeneratorPath)
    /\ fs' = [fs EXCEPT ![GeneratorPath] = out]
    /\ npc' = "reread"
    /\ UNCHANGED <<keyPath, hostPrivateKey, chanVars, payload, process, authFile,
                   connVars, forwards, forwadsMu, routerVars, listenerVars,
                   sup, chans>>

\* What ends the process in NewSshServer: panic(err).
KeyPanic == "panic: host key"

\* Lines 40-43: the second read; an error is a panic.
ReReadKey ==
    /\ Running
    /\ npc = "reread"
    /\ LET r == ReadFile(fs, keyPath)
       IN  IF r.err
           THEN Exit(KeyPanic)
           ELSE /\ npc' = "parse"
                /\ hostPrivateKey' = r.bytes
                /\ UNCHANGED <<keyPath, fs, genCalls, chanVars, payload, process,
                               authFile, connVars, forwards, forwadsMu,
                               routerVars, listenerVars, sup, chans>>

\* Lines 46-49: ssh.ParsePrivateKey; an error is a panic.
ParseKey ==
    /\ Running
    /\ npc = "parse"
    /\ LET r == ParsePrivateKey(hostPrivateKey)
       IN  IF r.err
           THEN Exit(KeyPanic)
           ELSE /\ npc' = "load"
                /\ hostPrivateKey' = r.signer
                /\ UNCHANGED <<keyPath, fs, genCalls, chanVars, payload, process,
                               authFile, connVars, forwards, forwadsMu,
                               routerVars, listenerVars, sup, chans>>

\* Lines 51-64: the server object is built, loadAuthorizedKeys is run once
\* (log.Fatal when it fails) and NewSshServer returns.
LoadAndReturn ==
    /\ Running
    /\ npc = "load"
    /\ IF loadAuthorizedKeys(authFile).fatal
       THEN Exit(AuthorizedKeysFatal)
       ELSE /\ npc' = "returned"
            /\ UNCHANGED <<keyPath, fs, hostPrivateKey, genCalls, chanVars,
                           payload, process, authFile, connVars, forwards,
                           forwadsMu, routerVars, listenerVars, sup, chans>>

\* ------------------------------------------------------------ Start, auth
\* The next connection to be accepted: connections are numbered in the
\* order of their handshakes.
NextConn(c) == cstate[c] = "none" /\ \A d \in Conns : d < c => cstate[d] # "none"

\* socket.Accept() fails: Start panics.
AcceptError ==
    /\ Running
    /\ Exit(AcceptPanic)

\* The goroutine of Start for one accepted socket, its handshake done with
\* the key pubKey: the public key callback fails it or lets it in.
Handshake(c, pubKey) ==
    /\ Running
    /\ NextConn(c)
    /\ ~loadAuthorizedKeys(authFile).fatal
    /\ LET p == keyAuth(loadAuthorizedKeys(authFile).keys, pubKey)
       IN  /\ ckey' = [ckey EXCEPT ![c] = pubKey]
           /\ perms' = [perms EXCEPT ![c] = p]
           /\ IF p.ok
              THEN /\ cstate' = [cstate EXCEPT ![c] = "established"]
                   /\ client' = c
                   /\ rpc' = [rpc EXCEPT ![c] = "idle"]
                   /\ cpc' = [cpc EXCEPT ![c] = "idle"]
              ELSE /\ cstate' = [cstate EXCEPT ![c] = "rejected"]
                   /\ UNCHANGED <<client, rpc, cpc>>
    /\ UNCHANGED <<keyVars, newChannel, chanOut, payload, process, authFile, forwards, forwadsMu, req, reply, ln,
                   listener, laddr, owner, lclient, sup, chans>>

\* keyAuth's loadAuthorizedKeys cannot read or parse the file: log.Fatal.
HandshakeFatal(c) ==
    /\ Running
    /\ NextConn(c)
    /\ loadAuthorizedKeys(authFile).fatal
    /\ Exit(AuthorizedKeysFatal)

\* The file is edited while the server runs.
EditAuthorizedKeys(file) ==
    /\ Running
    /\ file # authFile
    /\ authFile' = file
    /\ UNCHANGED <<keyVars, chanVars, payload, process, connVars, forwards, forwadsMu, routerVars,
                   listenerVars, sup, chans>>

\* The peer goes away: the transport of the connection closes.
TransportClose(c) ==
    /\ Running
    /\ cstate[c] = "established"
    /\ cstate' = [cstate EXCEPT ![c] = "closed"]
    /\ UNCHANGED <<keyVars, chanVars, payload, process, authFile, ckey, perms, client, forwards, forwadsMu,
                   routerVars, listenerVars, sup, chans>>

\* --------------------------------------------------------- handleRequests
\* for req := range reqs: the next global request of the peer arrives.
RouterRecv(c, r) ==
    /\ Running
    /\ rpc[c] = "idle"
    /\ cstate[c] = "established"
    /\ Cardinality(Busy) < MaxBusy
    /\ rpc' = [rpc EXCEPT ![c] = "switch"]
    /\ req' = [req EXCEPT ![c] = r]
    /\ UNCHANGED <<keyVars, chanVars, payload, process, authFile, connVars, forwards, forwadsMu, reply, ln,
                   listenerVars, sup, chans>>

\* The end of the loop body (or a continue): back to the range over reqs,
\* the request, the reply given to it and ln are dropped.
LoopNext(c) ==
    /\ Running
    /\ rpc[c] = "next"
    /\ rpc' = [rpc EXCEPT ![c] = "idle"]
    /\ req' = [req EXCEPT ![c] = NoReq]
    /\ reply' = [reply EXCEPT ![c] = "none"]
    /\ ln' = [ln EXCEPT ![c] = None]
    /\ payload' = [payload EXCEPT ![c] = NoPayload]
    /\ UNCHANGED <<keyVars, chanVars, process, authFile, connVars, forwards, forwadsMu,
                   listenerVars, sup, chans>>

\* The transport is closed and reqs with it: the range loop ends.
RouterExit(c) ==
    /\ Running
    /\ rpc[c] = "idle"
    /\ cstate[c] = "closed"
    /\ rpc' = [rpc EXCEPT ![c] = "done"]
    /\ UNCHANGED <<keyVars, chanVars, payload, process, authFile, connVars, forwards, forwadsMu, req, reply,
                   ln, listenerVars, sup, chans>>

\* Either case: ssh.Unmarshal fails, reply false and continue.
UnmarshalFail(c) ==
    /\ Running
    /\ rpc[c] = "switch"
    /\ req[c].type \in {TcpipForward, CancelTcpipForward}
    /\ ~req[c].ok
    /\ reply' = [reply EXCEPT ![c] = "false"]
    /\ rpc' = [rpc EXCEPT ![c] = "next"]
    /\ payload' = [payload EXCEPT ![c] = EmptyPayload]
    /\ UNCHANGED <<keyVars, chanVars, process, authFile, connVars, forwards, forwadsMu, req, ln,
                   listenerVars, sup, chans>>

\* tcpip-forward, lines 179-188 up to the send: take the lock and look the
\* address up. With an entry, close its listener and go on to the send on
\* checkAliveStop, the lock held; without one, unlock.
FwdLookup(c) ==
    /\ Running
    /\ rpc[c] = "switch"
    /\ req[c].type = TcpipForward
    /\ req[c].ok
    /\ forwadsMu = Free
    /\ LET old == forwards[req[c].addr]
       IN  IF old # None
           THEN /\ listener' = Close(old)
                /\ ln' = [ln EXCEPT ![c] = old]
                /\ forwadsMu' = Router(c)
                /\ rpc' = [rpc EXCEPT ![c] = "fwd_send"]
           ELSE /\ rpc' = [rpc EXCEPT ![c] = "fwd_listen"]
                /\ UNCHANGED <<listener, ln, forwadsMu>>
    /\ UNCHANGED <<keyVars, chanVars, payload, process, authFile, connVars, forwards, req, reply,
                   laddr, owner, lclient, sup, chans>>

\* checkAliveStop is one unbuffered channel of the server: any checkAliveFun
\* waiting in its select can take the value sent on it.
StopReceiver(c, l) == sup[l] = "select"

\* s.checkAliveStop <- true meets case <-s.checkAliveStop of supervisor l,
\* which returns; the router unlocks.
StopRendezvous(c, l) ==
    /\ Running
    /\ rpc[c] = "fwd_send"
    /\ StopReceiver(c, l)
    /\ sup' = [sup EXCEPT ![l] = "returned"]
    /\ forwadsMu' = Free
    /\ rpc' = [rpc EXCEPT ![c] = "fwd_listen"]
    /\ UNCHANGED <<keyVars, chanVars, payload, process, authFile, connVars, forwards, req, reply, ln,
                   listenerVars, chans>>

\* The address is bound by a listener of this process.
InUse(a) == \E l \in Listeners : listener[l] = "open" /\ laddr[l] = a

\* The listener net.Listen returns: a new one.
NewListener(l) ==
    /\ listener[l] = "unbound"
    /\ \A k \in Listeners : k < l => listener[k] # "unbound"

\* The connection line 200 hands to the accept loop: s.client, the last
\* connection whose handshake succeeded.
AcceptLoopClient(c) == client

\* net.Listen succeeds: reply true, start the accept loop on s.client and
\* the checkAliveFun goroutine of the new listener (lines 190-226).
ListenOk(c, l) ==
    /\ Running
    /\ rpc[c] = "fwd_listen"
    /\ ~InUse(req[c].addr)
    /\ NewListener(l)
    /\ listener' = [listener EXCEPT ![l] = "open"]
    /\ laddr' = [laddr EXCEPT ![l] = req[c].addr]
    /\ owner' = [owner EXCEPT ![l] = c]
    /\ lclient' = [lclient EXCEPT ![l] = AcceptLoopClient(c)]
    /\ sup' = [sup EXCEPT ![l] = "select"]
    /\ ln' = [ln EXCEPT ![c] = l]
    /\ reply' = [reply EXCEPT ![c] = "true"]
    /\ rpc' = [rpc EXCEPT ![c] = "fwd_install"]
    /\ payload' = [payload EXCEPT ![c] = ReplyPayload(c)]
    /\ UNCHANGED <<keyVars, chanVars, process, authFile, connVars, forwards, forwadsMu, req, chans>>

\* A bind failure answered as a success.
BindFailReplyTrue == "true"

\* req.Reply(false, []byte{}) of line 193.
BindFailReply == "false"

\* net.Listen fails (the port is in use, here or by another process):
\* reply false and continue (lines 191-195).
ListenFail(c) ==
    /\ Running
    /\ rpc[c] = "fwd_listen"
    /\ reply' = [reply EXCEPT ![c] = BindFailReply]
    /\ rpc' = [rpc EXCEPT ![c] = "next"]
    /\ payload' = [payload EXCEPT ![c] = EmptyPayload]
    /\ UNCHANGED <<keyVars, chanVars, process, authFile, connVars, forwards, forwadsMu, req, ln,
                   listenerVars, sup, chans>>

\* Lines 227-229: lock, s.forwards[addr] = ln, unlock.
Install(c) ==
    /\ Running
    /\ rpc[c] = "fwd_install"
    /\ forwadsMu = Free
    /\ forwards' = [forwards EXCEPT ![req[c].addr] = ln[c]]
    /\ rpc' = [rpc EXCEPT ![c] = "next"]
    /\ UNCHANGED <<keyVars, chanVars, payload, process, authFile, connVars, forwadsMu, req, reply, ln,
                   listenerVars, sup, chans>>

\* A cancel that deletes the entry of the address itself.
CancelForwardsDelete(c) == [forwards EXCEPT ![req[c].addr] = None]

\* What cancel-tcpip-forward leaves of the map: all of it, the handler has
\* no delete.
CancelForwards(c) == forwards

\* cancel-tcpip-forward (lines 241-247): the map is read without the lock;
\* an entry's listener is closed, the entry stays. No reply is sent.
Cancel(c) ==
    /\ Running
    /\ rpc[c] = "switch"
    /\ req[c].type = CancelTcpipForward
    /\ req[c].ok
    /\ LET found == forwards[req[c].addr]
       IN  listener' = IF found # None THEN Close(found) ELSE listener
    /\ forwards' = CancelForwards(c)
    /\ rpc' = [rpc EXCEPT ![c] = "next"]
    /\ UNCHANGED <<keyVars, chanVars, payload, process, authFile, connVars, forwadsMu, req, reply, ln,
                   laddr, owner, lclient, sup, chans>>

\* The unlocked read of line 244 runs while another goroutine is inside its
\* write of the map: the runtime may end the process with "concurrent map
\* read and map write". (Reading the value of before or of after the write
\* is Cancel taken before or after that write.)
CancelRace(c) ==
    /\ Running
    /\ rpc[c] = "switch"
    /\ req[c].type = CancelTcpipForward
    /\ req[c].ok
    /\ MapWriteInProgress
    /\ Exit(ConcurrentMapFatal)

\* default, a type containing "keepalive": reply true, no payload.
KeepaliveReply(c) ==
    /\ Running
    /\ rpc[c] = "switch"
    /\ req[c].type \notin {TcpipForward, CancelTcpipForward}
    /\ ContainsKeepalive(req[c].type)
    /\ reply' = [reply EXCEPT ![c] = "true"]
    /\ rpc' = [rpc EXCEPT ![c] = "next"]
    /\ payload' = [payload EXCEPT ![c] = EmptyPayload]
    /\ UNCHANGED <<keyVars, chanVars, process, authFile, connVars, forwards, forwadsMu, req, ln,
                   listenerVars, sup, chans>>

\* A default case that answers false what it logs.
LogOutOfBandReplyFalse(c) ==
    /\ Running
    /\ rpc[c] = "switch"
    /\ req[c].type \notin {TcpipForward, CancelTcpipForward}
    /\ ~ContainsKeepalive(req[c].type)
    /\ reply' = [reply EXCEPT ![c] = "false"]
    /\ rpc' = [rpc EXCEPT ![c] = "next"]
    /\ UNCHANGED <<keyVars, chanVars, payload, process, authFile, connVars,
                   forwards, forwadsMu, req, ln, listenerVars, sup, chans>>

\* default, any other type: logged, no reply.
LogOutOfBand(c) ==
    /\ Running
    /\ rpc[c] = "switch"
    /\ req[c].type \notin {TcpipForward, CancelTcpipForward}
    /\ ~ContainsKeepalive(req[c].type)
    /\ rpc' = [rpc EXCEPT ![c] = "next"]
    /\ UNCHANGED <<keyVars, chanVars, payload, process, authFile, connVars, forwards, forwadsMu, req, reply, ln,
                   listenerVars, sup, chans>>

\* ---------------------------------------------------------- checkAliveFun
\* The connection the probe is sent on.
ProbeTarget(l) == client

\* case <-ticker.C, SendRequest answered by the peer: go round the loop.
TickOk(l) ==
    /\ Running
    /\ sup[l] = "select"
    /\ Alive(ProbeTarget(l))
    /\ UNCHANGED vars

\* case <-ticker.C, SendRequest fails on a closed transport: ln.Close(),
\* then wait for the lock (lines 210-213).
TickFail(l) ==
    /\ Running
    /\ sup[l] = "select"
    /\ ~Alive(ProbeTarget(l))
    /\ listener' = Close(l)
    /\ sup' = [sup EXCEPT ![l] = "lock"]
    /\ UNCHANGED <<keyVars, chanVars, payload, process, authFile, connVars, forwards, forwadsMu, routerVars,
                   laddr, owner, lclient, chans>>

\* A supervisor that returns after ln.Close(), the entry left in the map.
SupReturnOnly(l) ==
    /\ Running
    /\ sup[l] = "lock"
    /\ forwadsMu = Free
    /\ sup' = [sup EXCEPT ![l] = "returned"]
    /\ UNCHANGED <<keyVars, chanVars, payload, process, authFile, connVars,
                   forwards, forwadsMu, routerVars, listenerVars, chans>>

\* Lines 213-216: lock, delete(s.forwards, addr), unlock and return.
SupDelete(l) ==
    /\ Running
    /\ sup[l] = "lock"
    /\ forwadsMu = Free
    /\ forwards' = [forwards EXCEPT ![laddr[l]] = None]
    /\ sup' = [sup EXCEPT ![l] = "returned"]
    /\ UNCHANGED <<keyVars, chanVars, payload, process, authFile, connVars, forwadsMu, routerVars,
                   listenerVars, chans>>

\* ------------------------------------------------------------ accept loop
\* handleTcpIpForwardSession(client, ln, ...): a TCP connection is accepted
\* on the open listener and a forwarded-tcpip channel is opened on the
\* connection the loop was started with.
AcceptForward(l) ==
    /\ Running
    /\ listener[l] = "open"
    /\ Alive(lclient[l])
    /\ Cardinality(chans) < MaxChans
    /\ chans' = chans \cup {<<l, lclient[l]>>}
    /\ UNCHANGED <<keyVars, chanVars, payload, process, authFile, connVars, forwards, forwadsMu, routerVars,
                   listenerVars, sup>>

\* The splice of a forwarded connection ends and its channel is closed.
ChannelClose(ch) ==
    /\ Running
    /\ ch \in chans
    /\ chans' = chans \ {ch}
    /\ UNCHANGED <<keyVars, chanVars, payload, process, authFile, connVars, forwards, forwadsMu, routerVars,
                   listenerVars, sup>>

\* --------------------------------------------------------- handleChannels
\* for newChannel := range chans: the peer opens a channel of type t.
ChannelOpen(c, t) ==
    /\ Running
    /\ cpc[c] = "idle"
    /\ cstate[c] = "established"
    /\ Len(chanOut[c]) < MaxOpens
    /\ cpc' = [cpc EXCEPT ![c] = "switch"]
    /\ newChannel' = [newChannel EXCEPT ![c] = t]
    /\ UNCHANGED <<keyVars, chanOut, payload, process, authFile, connVars,
                   forwards, forwadsMu, routerVars, listenerVars, sup, chans>>

\* The body of the loop: the switch on the type, then the next iteration.
HandleChannel(c) ==
    /\ Running
    /\ cpc[c] = "switch"
    /\ chanOut' = [chanOut EXCEPT ![c] = Append(@, dispatch(newChannel[c]))]
    /\ cpc' = [cpc EXCEPT ![c] = "idle"]
    /\ newChannel' = [newChannel EXCEPT ![c] = NoChannel]
    /\ UNCHANGED <<keyVars, payload, process, authFile, connVars, forwards,
                   forwadsMu, routerVars, listenerVars, sup, chans>>

\* The transport is closed and chans with it: the range loop ends.
ChannelRouterExit(c) ==
    /\ Running
    /\ cpc[c] = "idle"
    /\ cstate[c] = "closed"
    /\ cpc' = [cpc EXCEPT ![c] = "done"]
    /\ UNCHANGED <<keyVars, newChannel, chanOut, payload, process, authFile,
                   connVars, forwards, forwadsMu, routerVars, listenerVars,
                   sup, chans>>

\* ------------------------------------------------------------------- next
RouterStep(c) ==
    \/ UnmarshalFail(c)
    \/ FwdLookup(c)
    \/ \E l \in Listeners : StopRendezvous(c, l)
    \/ \E l \in Listeners : ListenOk(c, l)
    \/ ListenFail(c)
    \/ Install(c)
    \/ Cancel(c)
    \/ CancelRace(c)
    \/ KeepaliveReply(c)
    \/ LogOutOfBand(c)
    \/ LoopNext(c)
    \/ RouterExit(c)

SupStep(l) ==
    \/ TickOk(l)
    \/ TickFail(l)
    \/ SupDelete(l)

Next ==
    \/ AcceptError
    \/ \E c \in Conns, k \in PubKeys : Handshake(c, k)
    \/ \E c \in Conns : TransportClose(c)
    \/ \E c \in Conns, r \in Requests : RouterRecv(c, r)
    \/ \E c \in Conns : RouterStep(c)
    \/ \E l \in Listeners : SupStep(l)
    \/ \E l \in Listeners : AcceptForward(l)
    \/ \E ch \in Listeners \X Conns : ChannelClose(ch)

Spec == Init /\ [][Next]_vars

\* The authentication path alone, with the authorized_keys file edited
\* while the server runs.
NextAuth ==
    \/ AcceptError
    \/ \E f \in Files : EditAuthorizedKeys(f)
    \/ \E c \in Conns, k \in PubKeys : Handshake(c, k)
    \/ \E c \in Conns : HandshakeFatal(c)
    \/ \E c \in Conns : TransportClose(c)

AuthSpec == Init /\ [][NextAuth]_vars

\* The construction of the server.
NextKey ==
    \/ ReadKey
    \/ \E out \in KeyFiles : GenerateKey(out)
    \/ ReReadKey
    \/ ParseKey
    \/ LoadAndReturn

KeySpec == KeyInit /\ [][NextKey]_vars

\* The channel routers alone: what they do depends on nothing the request
\* routers and the supervisors change.
NextChan ==
    \/ \E c \in Conns, k \in PubKeys : Handshake(c, k)
    \/ \E c \in Conns : TransportClose(c)
    \/ \E c \in Conns, t \in ChannelTypes : ChannelOpen(c, t)
    \/ \E c \in Conns : HandleChannel(c)
    \/ \E c \in Conns : ChannelRouterExit(c)

ChanSpec == Init /\ [][NextChan]_vars

\* The scheduler runs every goroutine that can take a step; the peers and
\* the network owe nothing.
Fairness ==
    /\ \A c \in Conns : WF_vars(RouterStep(c))
    /\ \A l \in Listeners : WF_vars(SupStep(l))

FairSpec == Init /\ [][Next]_vars /\ Fairness

\* ================================================================ claims

\* The listeners bound on address a that are open.
OpenOn(a) == {l \in Listeners : listener[l] = "open" /\ laddr[l] = a}

\* The listeners an earlier tcpip-forward of connection c for address a
\* created, l excepted.
EarlierOn(c, a, l) ==
    {k \in Listeners : k # l /\ listener[k] # "unbound" /\ laddr[k] = a /\ owner[k] = c}

\* No connection but c has been established.
OnlyConnection(c) ==
    /\ cstate[c] = "established"
    /\ \A d \in Conns \ {c} : cstate[d] \in {"none", "rejected"}

\* C1 (replacement): when the only connection of the server, its transport
\* up, installs the listener of its second successful tcpip-forward for an
\* address, that listener is the only open one on the address and is what
\* the registry holds, and every earlier listener of the connection on that
\* address is closed and its supervisor has stopped.
C1_Replacement ==
    [][\A c \in Conns :
        (/\ rpc[c] = "fwd_install"
         /\ rpc'[c] = "next"
         /\ OnlyConnection(c)
         /\ EarlierOn(c, req[c].addr, ln[c]) # {})
        => /\ forwards'[req[c].addr] = ln[c]
           /\ OpenOn(req[c].addr) = {ln[c]}
           /\ \A k \in EarlierOn(c, req[c].addr, ln[c]) :
                  listener[k] = "closed" /\ ~SupLive(k)]_vars

\* No request is being handled and no transport has closed.
Quiet ==
    /\ Running
    /\ \A c \in Conns : rpc[c] \in {"none", "idle"} /\ cstate[c] # "closed"

\* C2: every listener in the registry has a live supervisor. (Stated for
\* the states in which no request is in progress and every accepted
\* connection is up: the claim's "every reachable state" holds these.)
C2_RegisteredHasSupervisor ==
    Quiet => \A a \in Addrs : forwards[a] # None => SupLive(forwards[a])

\* C3: once the transport of the connection that owns an installed forward
\* is closed (its router between requests or gone), the next tick of the
\* forward's supervisor is a failed probe, the tick that closes the listener
\* and removes the entry: no successful tick is possible.
C3_NextTickFails ==
    \A l \in Listeners :
        (/\ sup[l] = "select"
         /\ forwards[laddr[l]] = l
         /\ cstate[owner[l]] = "closed"
         /\ rpc[owner[l]] \in {"idle", "done"}) => ~ENABLED TickOk(l)

\* C4: a forwarded-tcpip channel for a socket accepted on a forward
\* listener is open on the connection whose tcpip-forward created the
\* listener.
C4_ChannelOnOwner ==
    \A ch \in chans : ch[2] = owner[ch[1]]

\* C5: a supervisor that returns on the stop signal is the supervisor of the
\* listener the sending tcpip-forward has just closed.
C5_StopReachesPrior ==
    [][\A l \in Listeners :
        (sup[l] = "select" /\ sup'[l] = "returned")
        => \E c \in Conns : rpc[c] = "fwd_send" /\ ln[c] = l]_vars

\* C7: a step of the request router of connection c closes no listener,
\* stops no supervisor and replaces no registry entry of another connection.
C7_OwnRegistryOnly ==
    [][\A c \in Conns, l \in Listeners :
        (/\ rpc'[c] # rpc[c]
         /\ process' = "running"
         /\ \/ listener[l] = "open" /\ listener'[l] = "closed"
            \/ sup[l] = "select" /\ sup'[l] = "returned"
            \/ \E a \in Addrs : forwards[a] = l /\ forwards'[a] # l)
        => owner[l] = c]_vars

\* The handler of a well-formed cancel-tcpip-forward of connection c takes
\* its step.
CancelStep(c) ==
    /\ rpc[c] = "switch"
    /\ req[c].type = CancelTcpipForward
    /\ req[c].ok
    /\ rpc'[c] # rpc[c]
    /\ process' \in {"running", ConcurrentMapFatal}

\* Connection c has just had its cancel-tcpip-forward for the registered
\* listener l handled: l is closed, still registered, its supervisor still
\* in its loop.
Cancelled(c, l) ==
    /\ rpc[c] = "next"
    /\ req[c].type = CancelTcpipForward
    /\ req[c].ok
    /\ forwards[req[c].addr] = l
    /\ listener[l] = "closed"
    /\ sup[l] = "select"

\* A tcpip-forward is blocked in its send on checkAliveStop, the lock held.
StopSendPending == \E c \in Conns : rpc[c] = "fwd_send"

FileKeys == {Marshal(authFile.lines[i]) : i \in DOMAIN authFile.lines}

\* C8: an authentication attempt succeeds iff the marshaled candidate key
\* is one of the keys of the authorized_keys file at that moment; a success
\* carries exactly the extension pubkey-fp, a failure carries no permissions.
C8_AuthIffAuthorized ==
    [][\A c \in Conns :
        (cstate[c] = "none" /\ cstate'[c] # "none")
        => /\ cstate'[c] = "established" <=> Marshal(ckey'[c]) \in FileKeys
           /\ cstate'[c] = "established"
              => /\ perms'[c].ok
                 /\ {e[1] : e \in perms'[c].extensions} = {"pubkey-fp"}
                 /\ Cardinality(perms'[c].extensions) = 1
           /\ cstate'[c] # "established"
              => /\ cstate'[c] = "rejected"
                 /\ perms'[c] = NoPermissions
                 /\ rpc'[c] = "none"]_vars

\* C8, reached: a key that only an edit of the file authorized was let in,
\* and a key the file does not hold was refused.
C8_Witness ==
    \E c \in Conns, d \in Conns :
        /\ cstate[c] = "established"
        /\ Marshal(ckey[c]) \notin loadAuthorizedKeys(InitialFile).keys
        /\ cstate[d] = "rejected"

\* C9: a tcpip-forward whose bind fails is answered false, starts no accept
\* loop and no supervisor, leaves the registry as it was, and the router
\* goes on to the next request.
C9_BindFailure ==
    [][\A c \in Conns :
        (rpc[c] = "fwd_listen" /\ rpc'[c] # "fwd_listen"
           /\ process' = "running" /\ ln'[c] = ln[c])
        => /\ reply'[c] = "false"
           /\ rpc'[c] = "next"
           /\ UNCHANGED <<forwards, listener, lclient, sup, chans, forwadsMu>>]_vars

\* C9, reached: a well-formed tcpip-forward answered false, the router on
\* its way to the next request.
C9_Witness ==
    \E c \in Conns :
        /\ rpc[c] = "next"
        /\ req[c].type = TcpipForward
        /\ req[c].ok
        /\ reply[c] = "false"

\* C10: a cancel-tcpip-forward for an address without an entry changes
\* neither the registry nor a listener nor a supervisor.
C10_CancelUnknownNoop ==
    [][\A c \in Conns :
        (CancelStep(c) /\ forwards[req[c].addr] = None)
        => UNCHANGED <<process, forwards, listener, sup>>]_vars

\* C11: every access to the registry map is made under the mutex: when the
\* handler of cancel-tcpip-forward reads the map, no other goroutine is
\* inside a write of it, and the runtime finds no map read concurrent with
\* a map write.
C11_MapAccessUnderLock ==
    [][\A c \in Conns :
        CancelStep(c) => (~MapWriteInProgress /\ process' = "running")]_vars

\* The request types with "keepalive" in them.
KeepaliveTypes == {Keepalive, KeepaliveInfix}

\* The router of connection c takes the step that handles its request.
Handles(c) == rpc[c] = "switch" /\ rpc'[c] # rpc[c] /\ process' = "running"

\* C12: a global request whose type contains "keepalive" is answered once,
\* with true and an empty payload (no second reply before the router takes
\* its next request), and its handling changes neither the registry nor a
\* listener nor a supervisor.
C12_KeepaliveAcked ==
    [][\A c \in Conns :
        /\ (Handles(c) /\ req[c].type \in KeepaliveTypes)
           => /\ reply[c] = "none"
              /\ reply'[c] = "true"
              /\ payload'[c] = EmptyPayload
              /\ rpc'[c] = "next"
              /\ UNCHANGED <<forwards, forwadsMu, listener, lclient, sup, chans>>
        /\ (rpc[c] = "next" /\ req[c].type \in KeepaliveTypes
              /\ process' = "running")
           => (reply'[c] = reply[c] /\ payload'[c] = payload[c]) \/ rpc'[c] = "idle"]_vars

\* C12, reached: a request with "keepalive" inside its type has been
\* answered true.
C12_Witness ==
    \E c \in Conns :
        /\ rpc[c] = "next"
        /\ req[c].type = KeepaliveInfix
        /\ reply[c] = "true"
        /\ payload[c] = EmptyPayload

\* The request types of the default case without "keepalive" in them.
OutOfBandTypes ==
    {r.type : r \in Requests} \ ({TcpipForward, CancelTcpipForward} \cup KeepaliveTypes)

\* C13: a global request that is neither tcpip-forward nor
\* cancel-tcpip-forward nor a keepalive gets no reply, neither when it is
\* handled nor later, and its handling changes neither the registry nor a
\* listener nor a supervisor.
C13_OutOfBandOnlyLogged ==
    [][\A c \in Conns :
        /\ (Handles(c) /\ req[c].type \in OutOfBandTypes)
           => /\ reply'[c] = "none"
              /\ payload'[c] = NoPayload
              /\ rpc'[c] = "next"
              /\ UNCHANGED <<forwards, forwadsMu, listener, lclient, sup, chans>>
        /\ (rpc[c] = "next" /\ req[c].type \in OutOfBandTypes)
           => reply'[c] = "none"]_vars

\* C13, reached: such a request has been handled, without a reply, while a
\* forward is registered.
C13_Witness ==
    \E c \in Conns :
        /\ rpc[c] = "next"
        /\ req[c].type = OutOfBand
        /\ reply[c] = "none"
        /\ \E a \in Addrs : forwards[a] # None

\* C14: a channel-open of type session is handed to the session handler,
\* one of type direct-tcpip to the direct handler, and any other type is
\* rejected with UnknownChannelType and the message "unknown channel type:
\* <type>"; after any of them the router is back at its range over chans.
C14_ChannelDispatch ==
    [][\A c \in Conns :
        (cpc[c] = "switch" /\ cpc'[c] # "switch" /\ process' = "running")
        => LET t == newChannel[c]
               out == chanOut'[c][Len(chanOut'[c])]
           IN  /\ Len(chanOut'[c]) = Len(chanOut[c]) + 1
               /\ out.type = t
               /\ t = "session"
                  => out.handler = "handleChannelSession" /\ out.reason = "none"
               /\ t = "direct-tcpip"
                  => out.handler = "handleChannelDirect" /\ out.reason = "none"
               /\ t \notin {"session", "direct-tcpip"}
                  => /\ out.handler = "none"
                     /\ out.reason = "UnknownChannelType"
                     /\ out.message = <<"unknown channel type: ", t>>
               /\ cpc'[c] = "idle"]_vars

\* C14, reached: a direct-tcpip channel-open was handed to its handler
\* after an x11 channel-open of the same connection was rejected.
C14_Witness ==
    \E c \in Conns :
        /\ Len(chanOut[c]) = 2
        /\ chanOut[c][1].type = "x11"
        /\ chanOut[c][1].reason = "UnknownChannelType"
        /\ chanOut[c][2].type = "direct-tcpip"
        /\ chanOut[c][2].handler = "handleChannelDirect"

\* C15: when the host key file does not exist, the generator is called,
\* once, with the path of the key file, and the file is then read and
\* parsed; NewSshServer returns only with the key file in place and a
\* parsed signer in the server; a file that cannot be read after the
\* generator ran, or cannot be parsed, ends the process.
C15_HostKey ==
    [][/\ (npc = "read" /\ ~fs[keyPath].exists) => npc' = "generate"
       /\ (npc = "generate" /\ npc' # npc)
          => /\ npc' = "reread"
             /\ genCalls' = <<keyPath>>
             /\ \A p \in Paths \ {keyPath} : fs'[p] = fs[p]
       /\ (npc = "reread")
          => IF fs[keyPath].exists
             THEN npc' = "parse" /\ hostPrivateKey' = fs[keyPath].pem
             ELSE process' # "running" /\ npc' # "returned"
       /\ (npc = "parse")
          => IF hostPrivateKey = "pem"
             THEN npc' = "load" /\ hostPrivateKey' = "signer"
             ELSE process' # "running" /\ npc' # "returned"
       /\ npc' = "returned"
          => /\ process' = "running"
             /\ fs'[keyPath].exists
             /\ hostPrivateKey' = "signer"
             /\ Len(genCalls') <= 1]_vars

\* C15, reached: NewSshServer has returned after the generator was called
\* for the key file.
C15_Witness ==
    /\ npc = "returned"
    /\ process = "running"
    /\ genCalls = <<keyPath>>
    /\ fs[keyPath].exists
    /\ hostPrivateKey = "signer"

\* C16: a handshake that fails starts no request router and no channel
\* router for its connection and leaves s.client, the registry, the
\* listeners and the other connections as they were; and the server
\* process ends on an error of the main listener's accept only.
C16_HandshakeFailureIsolated ==
    [][/\ \A c \in Conns :
            (cstate[c] = "none" /\ cstate'[c] = "rejected")
            => /\ rpc'[c] = "none"
               /\ cpc'[c] = "none"
               /\ process' = "running"
               /\ \A d \in Conns \ {c} : cstate'[d] = cstate[d]
               /\ UNCHANGED <<client, forwards, forwadsMu, rpc, cpc,
                              listener, sup, chans>>
       /\ (process = "running" /\ process' # "running")
          => process' = AcceptPanic]_vars

\* C17: a supervisor whose probe failed closes its listener before it
\* waits for the lock, and when it returns its listener is closed and the
\* registry has no entry for its address.
C17_ProbeFailureExit ==
    [][\A l \in Listeners :
        /\ (sup[l] = "select" /\ sup'[l] = "lock") => listener'[l] = "closed"
        /\ (sup[l] = "lock" /\ sup'[l] = "returned")
           => /\ listener[l] = "closed"
              /\ listener'[l] = "closed"
              /\ forwards'[laddr[l]] = None]_vars

\* C17, reached: the supervisor of the only listener there has been has
\* returned (no tcpip-forward found an entry to replace: nothing was sent on
\* the stop channel, and its entry was installed: no router is on its way
\* to install it), its listener closed and its entry gone.
C17_Witness ==
    /\ Running
    /\ sup[1] = "returned"
    /\ listener[1] = "closed"
    /\ listener[2] = "unbound"
    /\ forwards[laddr[1]] = None
    /\ \A c \in Conns : rpc[c] \notin {"fwd_send", "fwd_listen", "fwd_install"}

\* C18: a supervisor that returns on the stop signal closes no listener and
\* leaves the registry as it is, and its own listener is closed by then.
C18_StopExit ==
    [][\A l \in Listeners :
        (sup[l] = "select" /\ sup'[l] = "returned")
        => /\ listener' = listener
           /\ forwards' = forwards
           /\ listener[l] = "closed"]_vars

\* C19: the probe of a supervisor waiting for its tick goes to the
\* connection whose tcpip-forward created its listener.
C19_ProbeOnOwner ==
    \A l \in Listeners : sup[l] = "select" => ProbeTarget(l) = owner[l]

\* C20: a request router blocked in its send on the stop channel, the
\* registry lock held, gets out of it.
C20_StopSendCompletes ==
    \A c \in Conns : (rpc[c] = "fwd_send") ~> (rpc[c] # "fwd_send")

\* C21: the entry a supervisor deletes after its failed probe is the entry
\* of its own listener, never the one of a newer binding of the address;
\* and an entry is installed only while the supervisor started for it is
\* still running, never after that supervisor has run its removal.
C21_DeleteOwnEntry ==
    [][/\ \A l \in Listeners :
            (sup[l] = "lock" /\ sup'[l] = "returned")
            => forwards[laddr[l]] \in {None, l}
       /\ \A c \in Conns :
            (rpc[c] = "fwd_install" /\ rpc'[c] = "next")
            => SupLive(ln[c])]_vars

\* C22: every open forward listener is in the registry or has a live
\* supervisor.
C22_NoListenerLeak ==
    \A l \in Listeners :
        listener[l] = "open" => (forwards[laddr[l]] = l \/ SupLive(l))

====
